---- MODULE Spec2Model ----
(***************************************************************************)
(* ChatMood: the sticker composition pipeline of the web app               *)
(* (class ChatMoodApp, src/unnamed/part_000 lines 581-1011).               *)
(*                                                                         *)
(* Representation.                                                         *)
(*  - A JavaScript string is a sequence of UTF-16 code units, each code    *)
(*    unit a one-element TLA+ string ("A", "#", "hi:D83D", "lo:DE00").     *)
(*    CSS colour functions such as rgba(0, 0, 0, 0.2) are never taken      *)
(*    apart by the code and are kept as one opaque unit.                   *)
(*  - The 2D context is the record ctx of the settings the code assigns;   *)
(*    the canvas is the sequence of draw operations performed since the    *)
(*    last clearRect, each with the settings in force when it was drawn.   *)
(*  - Coordinates are exact rationals [n, d] in lowest terms (the code     *)
(*    uses IEEE doubles; rounding is not modelled).                        *)
(***************************************************************************)
EXTENDS Integers, Sequences, FiniteSets, TLC

VARIABLES selectedMood, selectedEmoji, customText, textColor, selectedEffect,
          ctx, canvas, threw, highlight, color, amount, result,
          palette, update, sent, logged, returned, bot, exchanges, reply, call,
          telegram, pending, responses, notified, closeTimers, closeCalls,
          pc, attempt, probes, lastProbe, exitStatus, steps

vars == <<selectedMood, selectedEmoji, customText, textColor, selectedEffect,
          ctx, canvas, threw, highlight, color, amount, result,
          palette, update, sent, logged, returned, bot, exchanges, reply, call,
          telegram, pending, responses, notified, closeTimers, closeCalls,
          pc, attempt, probes, lastProbe, exitStatus, steps>>

\* the fields of ChatMoodApp, its canvas and its pickers; palette is
\* this.backgroundColors
appVars == <<selectedMood, selectedEmoji, customText, textColor, selectedEffect,
             ctx, canvas, threw, highlight, palette>>

utilVars == <<color, amount, result>>

\* the Telegram bot: the update being handled, the requests sent to the
\* Telegram API and the lines logged by the last call, the error it
\* returned, the *Bot NewBot returned, what the HTTP exchanges of the call
\* did, what makeRequest returned, and the function called
botVars == <<update, sent, logged, returned, bot, exchanges, reply, call>>

\* sharing from the web app: what window.Telegram holds, the share requests
\* in flight, the responses received so far and the notifications each of
\* them led to, the pending close timers and the WebApp.close() calls made
shareVars == <<telegram, pending, responses, notified, closeTimers, closeCalls>>

\* deploy.sh from the call of health_check in main: the command the script
\* is at, $attempt, the curl probes made and the result of the last one,
\* the exit status of the script (-1 while it runs) and the functions of
\* main entered so far
deployVars == <<pc, attempt, probes, lastProbe, exitStatus, steps>>

(***************************************************************************)
(* Bounds of the model.                                                    *)
(***************************************************************************)
\* longest caption typed, as a prefix of SampleText
MaxTextLen == 8
\* how many buttons of the mood, emoji and colour pickers are clicked
MaxMoodBtn == 2
MaxEmojiBtn == 2
MaxColorBtn == 2

(***************************************************************************)
(* Exact rational arithmetic for canvas coordinates.                       *)
(***************************************************************************)
Abs(i) == IF i < 0 THEN -i ELSE i

RECURSIVE GCD(_, _)
GCD(a, b) == IF b = 0 THEN a ELSE GCD(b, a % b)

\* n/d in lowest terms; a division by zero gives the not-a-number [0, 0]
Q(n, d) ==
    IF d = 0 THEN [n |-> 0, d |-> 0]
    ELSE LET g == GCD(Abs(n), Abs(d))
             s == IF d < 0 THEN -1 ELSE 1
         IN  [n |-> (s * n) \div g, d |-> (s * d) \div g]

FromInt(i) == [n |-> i, d |-> 1]
RAdd(a, b) == Q(a.n * b.d + b.n * a.d, a.d * b.d)
RSub(a, b) == Q(a.n * b.d - b.n * a.d, a.d * b.d)
RMul(a, b) == Q(a.n * b.n, a.d * b.d)
RDiv(a, b) == Q(a.n * b.d, a.d * b.n)

(***************************************************************************)
(* Hexadecimal parsing and formatting (parseInt(s, 16), toString(16),      *)
(* padStart) as used by adjustBrightness.                                  *)
(***************************************************************************)
HexDigitsLower ==
    <<"0", "1", "2", "3", "4", "5", "6", "7", "8", "9", "a", "b", "c", "d", "e", "f">>
HexDigitsUpper ==
    <<"0", "1", "2", "3", "4", "5", "6", "7", "8", "9", "A", "B", "C", "D", "E", "F">>

IsHexDigit(u) == \E k \in 1..16 : HexDigitsLower[k] = u \/ HexDigitsUpper[k] = u

HexVal(u) == (CHOOSE k \in 1..16 : HexDigitsLower[k] = u \/ HexDigitsUpper[k] = u) - 1

\* the value parseInt cannot produce from digits: no digit at the front
NaN == -1

RECURSIVE ParseDigits(_, _, _)
ParseDigits(s, i, acc) ==
    IF i > Len(s) \/ ~IsHexDigit(s[i]) THEN acc
    ELSE ParseDigits(s, i + 1, acc * 16 + HexVal(s[i]))

\* parseInt(s, 16): the longest prefix of hex digits, NaN when it is empty
\* (sign, radix prefix and leading blanks do not occur in the colours used)
ParseInt16(s) ==
    IF Len(s) = 0 \/ ~IsHexDigit(s[1]) THEN NaN ELSE ParseDigits(s, 1, 0)

\* ToInt32 of the bitwise operators: NaN becomes 0; a number below 2^31 is
\* kept (colours of up to seven hex digits never reach 2^31)
ToInt32(v) == IF v = NaN THEN 0 ELSE v

ShiftRight(v, k) == ToInt32(v) \div (2 ^ k)
BitAndFF(v) == ToInt32(v) % 256

RECURSIVE ToHexString(_)
ToHexString(v) ==
    IF v < 16 THEN <<HexDigitsLower[v + 1]>>
    ELSE ToHexString(v \div 16) \o <<HexDigitsLower[(v % 16) + 1]>>

RECURSIVE PadStart(_, _, _)
PadStart(s, len, pad) == IF Len(s) >= len THEN s ELSE PadStart(<<pad>> \o s, len, pad)

\* String.prototype.replace(unit, ''): drops the first occurrence only
RemoveFirst(s, u) ==
    IF \E i \in 1..Len(s) : s[i] = u
    THEN LET i == CHOOSE j \in 1..Len(s) : s[j] = u /\ \A k \in 1..(j - 1) : s[k] # u
         IN  SubSeq(s, 1, i - 1) \o SubSeq(s, i + 1, Len(s))
    ELSE s

Max(a, b) == IF a > b THEN a ELSE b
Min(a, b) == IF a < b THEN a ELSE b

\* Math.max(0, Math.min(255, v + amount))
ClampedChannelWrap(v, a) == (v + a) % 256
ClampedChannel(v, a) == Max(0, Min(255, v + a))

adjustBrightness(c, a) ==
    LET hex == RemoveFirst(c, "#")
        num == ParseInt16(hex)
        r == ClampedChannel(ShiftRight(num, 16), a)
        g == ClampedChannel(BitAndFF(ShiftRight(num, 8)), a)
        b == ClampedChannel(BitAndFF(num), a)
    IN  <<"#">> \o PadStart(ToHexString(r * 65536 + g * 256 + b), 6, "0")

(***************************************************************************)
(* Text: code units, surrogate pairs, trim.                                *)
(***************************************************************************)
HighSurrogates == {"hi:D83D", "hi:D83E"}
LowSurrogates ==
    {"lo:DE00", "lo:DE01", "lo:DE02", "lo:DE03", "lo:DE04", "lo:DE05", "lo:DE06",
     "lo:DE0A", "lo:DD23"}
WhiteSpace == {" ", "\t", "\n"}

RECURSIVE TrimStart(_)
TrimStart(s) ==
    IF Len(s) > 0 /\ s[1] \in WhiteSpace THEN TrimStart(Tail(s)) ELSE s

RECURSIVE TrimEnd(_)
TrimEnd(s) ==
    IF Len(s) > 0 /\ s[Len(s)] \in WhiteSpace THEN TrimEnd(SubSeq(s, 1, Len(s) - 1)) ELSE s

\* String.prototype.trim
Trim(s) == TrimEnd(TrimStart(s))

\* the Unicode characters (code points) of a string: a high surrogate
\* followed by a low surrogate is one character
RECURSIVE CodePoints(_)
CodePoints(s) ==
    IF Len(s) = 0 THEN <<>>
    ELSE IF Len(s) >= 2 /\ s[1] \in HighSurrogates /\ s[2] \in LowSurrogates
         THEN <<SubSeq(s, 1, 2)>> \o CodePoints(SubSeq(s, 3, Len(s)))
         ELSE <<SubSeq(s, 1, 1)>> \o CodePoints(Tail(s))

(***************************************************************************)
(* Colours and CSS colour parsing of the canvas.                           *)
(***************************************************************************)
Black == <<"#", "0", "0", "0", "0", "0", "0">>
White == <<"#", "F", "F", "F", "F", "F", "F">>
EmojiShadowColor == <<"rgba(0, 0, 0, 0.2)">>
TextShadowColor == <<"rgba(0, 0, 0, 0.5)">>
BorderColor == <<"rgba(255, 255, 255, 0.3)">>
TransparentBlack == <<"rgba(0, 0, 0, 0)">>
DefaultBackground == <<"#", "F", "F", "E", "0", "6", "6">>

\* '#' followed by exactly six hex digits
IsHexColor(s) ==
    /\ Len(s) = 7
    /\ s[1] = "#"
    /\ \A i \in 2..7 : IsHexDigit(s[i])

\* what the canvas accepts as a colour: #rgb, #rgba, #rrggbb, #rrggbbaa and
\* the rgba() values the code writes
IsCssColor(s) ==
    \/ s \in {EmojiShadowColor, TextShadowColor, BorderColor, TransparentBlack}
    \/ /\ Len(s) \in {4, 5, 7, 9}
       /\ s[1] = "#"
       /\ \A i \in 2..Len(s) : IsHexDigit(s[i])

\* the R, G, B channels of a #rrggbb colour
Channels(s) ==
    <<HexVal(s[2]) * 16 + HexVal(s[3]),
      HexVal(s[4]) * 16 + HexVal(s[5]),
      HexVal(s[6]) * 16 + HexVal(s[7])>>

(***************************************************************************)
(* this.backgroundColors and the property lookup of updatePreview.         *)
(***************************************************************************)
backgroundColors ==
    [happy   |-> <<"#", "F", "F", "E", "0", "6", "6">>,
     sad     |-> <<"#", "8", "7", "C", "E", "E", "B">>,
     angry   |-> <<"#", "F", "F", "6", "B", "6", "B">>,
     excited |-> <<"#", "F", "F", "8", "E", "5", "3">>,
     calm    |-> <<"#", "9", "E", "C", "A", "E", "1">>,
     love    |-> <<"#", "F", "F", "B", "6", "C", "1">>,
     cool    |-> <<"#", "9", "8", "F", "B", "9", "8">>,
     tired   |-> <<"#", "D", "D", "A", "0", "D", "D">>]

\* backgroundColors is a plain object literal: a lookup of a name it does
\* not own goes on to Object.prototype, whose members are functions/objects
ObjectPrototypeKeys ==
    {"constructor", "toString", "toLocaleString", "valueOf", "hasOwnProperty",
     "isPrototypeOf", "propertyIsEnumerable", "__proto__"}

Undefined == [type |-> "undefined", str |-> <<"undefined">>]
StringValue(s) == [type |-> "string", str |-> s]
\* an inherited member; its string conversion is no CSS colour
ObjectValue(name) == [type |-> "object", str |-> <<"function ", name, "() { [native code] }">>]

\* this.backgroundColors[key]
GetProperty(key) ==
    IF key \in DOMAIN palette THEN StringValue(palette[key])
    ELSE IF key \in ObjectPrototypeKeys THEN ObjectValue(key)
    ELSE Undefined

Truthy(v) ==
    \/ v.type = "object"
    \/ v.type = "string" /\ v.str # <<>>

\* this.backgroundColors[this.selectedMood] || '#FFE066'
BgColor(mood) ==
    LET v == GetProperty(mood)
    IN  IF Truthy(v) THEN v ELSE StringValue(DefaultBackground)

(***************************************************************************)
(* The 2D context.  A machine state c is [ctx, canvas, threw]: the         *)
(* context settings, the draw operations on the canvas, and whether an     *)
(* exception is propagating (every later statement is then skipped).       *)
(***************************************************************************)
\* the settings of a context just obtained from getContext('2d')
FreshContext ==
    [fillStyle     |-> [kind |-> "color", color |-> Black],
     strokeStyle   |-> [kind |-> "color", color |-> Black],
     lineWidth     |-> 1,
     font          |-> "10px sans-serif",
     textAlign     |-> "start",
     textBaseline  |-> "alphabetic",
     shadowColor   |-> TransparentBlack,
     shadowBlur    |-> 0,
     shadowOffsetX |-> 0,
     shadowOffsetY |-> 0]

FreshMachine == [ctx |-> FreshContext, canvas |-> <<>>, threw |-> FALSE]

NoShadow == [color |-> <<>>, blur |-> 0, offsetX |-> 0, offsetY |-> 0]

\* the shadow a draw operation is painted with: none unless the shadow
\* colour is not transparent and the blur or an offset is non-zero
ShadowInForce(x) ==
    IF x.shadowColor # TransparentBlack
       /\ (x.shadowBlur # 0 \/ x.shadowOffsetX # 0 \/ x.shadowOffsetY # 0)
    THEN [color |-> x.shadowColor, blur |-> x.shadowBlur,
          offsetX |-> x.shadowOffsetX, offsetY |-> x.shadowOffsetY]
    ELSE NoShadow

Throw(c) == [c EXCEPT !.threw = TRUE]

\* assigning a colour the canvas cannot parse leaves the setting unchanged
SetFillColor(c, s) ==
    IF c.threw \/ ~IsCssColor(s) THEN c
    ELSE [c EXCEPT !.ctx.fillStyle = [kind |-> "color", color |-> s]]

SetFillGradient(c, g) ==
    IF c.threw THEN c ELSE [c EXCEPT !.ctx.fillStyle = g]

SetStrokeColor(c, s) ==
    IF c.threw \/ ~IsCssColor(s) THEN c
    ELSE [c EXCEPT !.ctx.strokeStyle = [kind |-> "color", color |-> s]]

SetLineWidth(c, w) == IF c.threw THEN c ELSE [c EXCEPT !.ctx.lineWidth = w]

SetTextStyle(c, f, a, b) ==
    IF c.threw THEN c
    ELSE [c EXCEPT !.ctx.font = f, !.ctx.textAlign = a, !.ctx.textBaseline = b]

SetShadowColor(c, s) ==
    IF c.threw \/ ~IsCssColor(s) THEN c ELSE [c EXCEPT !.ctx.shadowColor = s]

SetShadowBlur(c, b) == IF c.threw THEN c ELSE [c EXCEPT !.ctx.shadowBlur = b]

SetShadowOffset(c, x, y) ==
    IF c.threw THEN c ELSE [c EXCEPT !.ctx.shadowOffsetX = x, !.ctx.shadowOffsetY = y]

ClearRect(c) == IF c.threw THEN c ELSE [c EXCEPT !.canvas = <<>>]

Draw(c, entry) == IF c.threw THEN c ELSE [c EXCEPT !.canvas = Append(@, entry)]

FillRect(c, x, y, w, h) ==
    Draw(c, [op |-> "fillRect", text |-> <<>>, x |-> FromInt(x), y |-> FromInt(y),
             w |-> w, h |-> h, style |-> c.ctx.fillStyle, lineWidth |-> 0,
             font |-> "", textAlign |-> "", textBaseline |-> "",
             shadow |-> ShadowInForce(c.ctx)])

StrokeRect(c, x, y, w, h) ==
    Draw(c, [op |-> "strokeRect", text |-> <<>>, x |-> FromInt(x), y |-> FromInt(y),
             w |-> w, h |-> h, style |-> c.ctx.strokeStyle, lineWidth |-> c.ctx.lineWidth,
             font |-> "", textAlign |-> "", textBaseline |-> "",
             shadow |-> ShadowInForce(c.ctx)])

\* x is a rational, y an integer
FillText(c, text, x, y) ==
    Draw(c, [op |-> "fillText", text |-> text, x |-> x, y |-> FromInt(y),
             w |-> 0, h |-> 0, style |-> c.ctx.fillStyle, lineWidth |-> 0,
             font |-> c.ctx.font, textAlign |-> c.ctx.textAlign,
             textBaseline |-> c.ctx.textBaseline, shadow |-> ShadowInForce(c.ctx)])

StrokeText(c, text, x, y) ==
    Draw(c, [op |-> "strokeText", text |-> text, x |-> x, y |-> FromInt(y),
             w |-> 0, h |-> 0, style |-> c.ctx.strokeStyle, lineWidth |-> c.ctx.lineWidth,
             font |-> c.ctx.font, textAlign |-> c.ctx.textAlign,
             textBaseline |-> c.ctx.textBaseline, shadow |-> ShadowInForce(c.ctx)])

\* createRadialGradient / createLinearGradient followed by two addColorStop:
\* addColorStop throws SyntaxError on a colour it cannot parse
RadialGradient(x0, y0, r0, x1, y1, r1, stop0, stop1) ==
    [kind |-> "radial", from |-> <<x0, y0, r0>>, to |-> <<x1, y1, r1>>,
     stops |-> <<<<0, stop0>>, <<1, stop1>>>>]

LinearGradient(x0, y0, x1, y1, stop0, stop1) ==
    [kind |-> "linear", from |-> <<x0, y0>>, to |-> <<x1, y1>>,
     stops |-> <<<<0, stop0>>, <<1, stop1>>>>]

\* ctx.measureText(text).width in the 48px bold font: the sum of the glyph
\* advances, a surrogate pair being one glyph
GlyphAdvance(cp) ==
    IF Len(cp) = 2 THEN 48
    ELSE IF cp[1] \in WhiteSpace THEN 13
    ELSE IF cp[1] \in {"I", "J"} THEN 14
    ELSE IF cp[1] \in HighSurrogates \cup LowSurrogates THEN 29
    ELSE 33

RECURSIVE SumAdvance(_)
SumAdvance(cps) ==
    IF Len(cps) = 0 THEN 0 ELSE GlyphAdvance(Head(cps)) + SumAdvance(Tail(cps))

MeasureTextWidth(text) == SumAdvance(CodePoints(text))

(***************************************************************************)
(* The renderer: updatePreview, drawStyledText, drawRainbowText.           *)
(***************************************************************************)
\* canvas.width and canvas.height of the sticker canvas
CanvasSize == 512

TextFont == "bold 48px Roboto, Arial, sans-serif"
EmojiFont == "200px Arial"

rainbowColors ==
    << <<"#", "F", "F", "0", "0", "0", "0">>,
       <<"#", "F", "F", "7", "F", "0", "0">>,
       <<"#", "F", "F", "F", "F", "0", "0">>,
       <<"#", "0", "0", "F", "F", "0", "0">>,
       <<"#", "0", "0", "0", "0", "F", "F">>,
       <<"#", "4", "B", "0", "0", "8", "2">>,
       <<"#", "9", "4", "0", "0", "D", "3">> >>

\* colors[i % colors.length], i counted from 0
RainbowColorShortCycle(i) == rainbowColors[(i % (Len(rainbowColors) - 1)) + 1]
RainbowColor(i) == rainbowColors[(i % Len(rainbowColors)) + 1]

\* the body of the for loop, from index i (0-based) to text.length - 1; an
\* exception leaves the loop
RECURSIVE RainbowLoop(_, _, _, _, _, _)
RainbowLoop(c, text, i, startX, charWidth, y) ==
    IF c.threw \/ i >= Len(text) THEN c
    ELSE LET c1 == SetFillColor(c, RainbowColor(i))
             px == RAdd(RAdd(startX, RMul(FromInt(i), charWidth)),
                        RDiv(charWidth, FromInt(2)))
             c2 == FillText(c1, <<text[i + 1]>>, px, y)
         IN  RainbowLoop(c2, text, i + 1, startX, charWidth, y)

drawRainbowText(c, text, x, y) ==
    LET width == FromInt(MeasureTextWidth(text))
        charWidth == RDiv(width, FromInt(Len(text)))
        startX == RSub(FromInt(x), RDiv(width, FromInt(2)))
    IN  RainbowLoop(c, text, 0, startX, charWidth, y)

\* case 'shadow'
ShadowCaseNoOffset(c, text, x, y) ==
    FillText(SetFillColor(c, TextShadowColor), text, FromInt(x), y)
ShadowCase(c, text, x, y) ==
    FillText(SetFillColor(c, TextShadowColor), text, FromInt(x + 3), y + 3)

\* case 'glow'
GlowCase(c, tcolor) ==
    SetShadowOffset(SetShadowBlur(SetShadowColor(c, tcolor), 10), 0, 0)

\* case 'outline'
OutlineCaseLighter(c, text, x, y, tcolor) ==
    StrokeText(SetLineWidth(SetStrokeColor(c, adjustBrightness(tcolor, -30)), 4),
               text, FromInt(x), y)
OutlineCase(c, text, x, y, tcolor) ==
    StrokeText(SetLineWidth(SetStrokeColor(c, adjustBrightness(tcolor, -40)), 4),
               text, FromInt(x), y)

\* case 'gradient' (returns from drawStyledText)
GradientCaseNoReturn(c, text, x, y, tcolor) ==
    IF ~IsCssColor(tcolor) THEN Throw(c)
    ELSE LET g == LinearGradient(0, y - 24, 0, y + 24,
                                 tcolor, adjustBrightness(tcolor, -30))
             c1 == FillText(SetFillGradient(c, g), text, FromInt(x), y)
         IN  SetShadowBlur(FillText(SetFillColor(c1, tcolor), text, FromInt(x), y), 0)
GradientCase(c, text, x, y, tcolor) ==
    IF ~IsCssColor(tcolor) THEN Throw(c)
    ELSE LET g == LinearGradient(0, y - 24, 0, y + 24,
                                 tcolor, adjustBrightness(tcolor, -30))
         IN  FillText(SetFillGradient(c, g), text, FromInt(x), y)

\* "Reset shadow"
ResetShadowMissing(c) == c
ResetShadow(c) == SetShadowBlur(c, 0)

\* "Draw main text" and "Reset shadow", reached by the cases that break
MainText(c, text, x, y, tcolor) ==
    ResetShadow(FillText(SetFillColor(c, tcolor), text, FromInt(x), y))

\* drawStyledText with case 'glow' lacking its break: it runs on into
\* case 'outline'
drawStyledTextGlowNoBreak(c, text, x, y, tcolor, effect) ==
    LET c1 == SetTextStyle(c, TextFont, "center", "middle")
    IN  CASE effect = "shadow"   -> MainText(ShadowCase(c1, text, x, y), text, x, y, tcolor)
          [] effect = "glow"     -> MainText(OutlineCase(GlowCase(c1, tcolor), text, x, y, tcolor),
                                             text, x, y, tcolor)
          [] effect = "outline"  -> MainText(OutlineCase(c1, text, x, y, tcolor), text, x, y, tcolor)
          [] effect = "gradient" -> GradientCase(c1, text, x, y, tcolor)
          [] effect = "rainbow"  -> drawRainbowText(c1, text, x, y)
          [] OTHER               -> MainText(c1, text, x, y, tcolor)

\* drawStyledText with case 'rainbow' ending in break instead of return
drawStyledTextRainbowBreaks(c, text, x, y, tcolor, effect) ==
    LET c1 == SetTextStyle(c, TextFont, "center", "middle")
    IN  CASE effect = "shadow"   -> MainText(ShadowCase(c1, text, x, y), text, x, y, tcolor)
          [] effect = "glow"     -> MainText(GlowCase(c1, tcolor), text, x, y, tcolor)
          [] effect = "outline"  -> MainText(OutlineCase(c1, text, x, y, tcolor), text, x, y, tcolor)
          [] effect = "gradient" -> GradientCase(c1, text, x, y, tcolor)
          [] effect = "rainbow"  -> MainText(drawRainbowText(c1, text, x, y), text, x, y, tcolor)
          [] OTHER               -> MainText(c1, text, x, y, tcolor)

drawStyledText(c, text, x, y, tcolor, effect) ==
    LET c1 == SetTextStyle(c, TextFont, "center", "middle")
    IN  CASE effect = "shadow"   -> MainText(ShadowCase(c1, text, x, y), text, x, y, tcolor)
          [] effect = "glow"     -> MainText(GlowCase(c1, tcolor), text, x, y, tcolor)
          [] effect = "outline"  -> MainText(OutlineCase(c1, text, x, y, tcolor), text, x, y, tcolor)
          [] effect = "gradient" -> GradientCase(c1, text, x, y, tcolor)
          [] effect = "rainbow"  -> drawRainbowText(c1, text, x, y)
          [] OTHER               -> MainText(c1, text, x, y, tcolor)

\* the background without the darker outer stop
BackgroundStageFlat(c, mood) ==
    LET bgColor == BgColor(mood)
    IN  IF ~IsCssColor(bgColor.str) THEN Throw(c)
        ELSE LET g == RadialGradient(256, 256, 0, 256, 256, 300, bgColor.str, bgColor.str)
             IN  FillRect(SetFillGradient(c, g), 0, 0, CanvasSize, CanvasSize)

\* "Set background"
BackgroundStage(c, mood) ==
    LET bgColor == BgColor(mood)
    IN  IF ~IsCssColor(bgColor.str) THEN Throw(c)
        ELSE LET g == RadialGradient(256, 256, 0, 256, 256, 300,
                                     bgColor.str, adjustBrightness(bgColor.str, -20))
             IN  FillRect(SetFillGradient(c, g), 0, 0, CanvasSize, CanvasSize)

\* "Draw emoji": shadow copy, then the emoji itself
EmojiStageKeepsFont(c, emoji) ==
    LET c2 == FillText(SetFillColor(c, EmojiShadowColor), emoji, FromInt(258), 258)
    IN  FillText(SetFillColor(c2, Black), emoji, FromInt(256), 256)
EmojiStage(c, emoji) ==
    LET c1 == SetTextStyle(c, EmojiFont, "center", "middle")
        c2 == FillText(SetFillColor(c1, EmojiShadowColor), emoji, FromInt(258), 258)
    IN  FillText(SetFillColor(c2, Black), emoji, FromInt(256), 256)

\* if (this.customText.trim())
HasTextUntrimmed(text) == text # <<>>
HasText(text) == Trim(text) # <<>>

\* "Draw text if provided"
TextStage(c, text, tcolor, effect) ==
    IF c.threw \/ ~HasText(text) THEN c
    ELSE drawStyledText(c, Trim(text), 256, 400, tcolor, effect)

\* "Add border"
BorderStage(c) ==
    StrokeRect(SetLineWidth(SetStrokeColor(c, BorderColor), 4),
               2, 2, CanvasSize - 4, CanvasSize - 4)

\* updatePreview with the text drawn before the emoji
updatePreviewTextFirst(c, mood, emoji, text, tcolor, effect) ==
    LET c0 == [c EXCEPT !.threw = FALSE]
    IN  BorderStage(
          EmojiStage(
            TextStage(
              BackgroundStage(ClearRect(c0), mood), text, tcolor, effect), emoji))
updatePreview(c, mood, emoji, text, tcolor, effect) ==
    LET c0 == [c EXCEPT !.threw = FALSE]
    IN  BorderStage(
          TextStage(
            EmojiStage(
              BackgroundStage(ClearRect(c0), mood), emoji), text, tcolor, effect))

(***************************************************************************)
(* The pickers of the web app.                                             *)
(***************************************************************************)
\* populateMoods: the ids of the mood buttons, in order
moods == <<"happy", "sad", "angry", "excited", "calm", "love", "cool", "tired">>

\* populateEmojis: the first nine entries of allEmojis (the ninth is the
\* constructor's selectedEmoji)
allEmojis ==
    << <<"hi:D83D", "lo:DE00">>, <<"hi:D83D", "lo:DE03">>, <<"hi:D83D", "lo:DE04">>,
       <<"hi:D83D", "lo:DE01">>, <<"hi:D83D", "lo:DE06">>, <<"hi:D83D", "lo:DE05">>,
       <<"hi:D83D", "lo:DE02">>, <<"hi:D83E", "lo:DD23">>, <<"hi:D83D", "lo:DE0A">> >>

\* constructor: this.selectedEmoji
DefaultEmoji == <<"hi:D83D", "lo:DE0A">>

\* populateColors
colorsWithShortHex ==
    << <<"#", "0", "0", "0", "0", "0", "0">>, <<"#", "F", "F", "F">> >>
colors ==
    << <<"#", "0", "0", "0", "0", "0", "0">>, <<"#", "F", "F", "F", "F", "F", "F">>,
       <<"#", "F", "F", "0", "0", "0", "0">>, <<"#", "0", "0", "F", "F", "0", "0">>,
       <<"#", "0", "0", "0", "0", "F", "F">>, <<"#", "F", "F", "F", "F", "0", "0">>,
       <<"#", "F", "F", "0", "0", "F", "F">>, <<"#", "0", "0", "F", "F", "F", "F">>,
       <<"#", "F", "F", "A", "5", "0", "0">>, <<"#", "8", "0", "0", "0", "8", "0">>,
       <<"#", "F", "F", "C", "0", "C", "B">>, <<"#", "A", "5", "2", "A", "2", "A">>,
       <<"#", "8", "0", "8", "0", "8", "0">>, <<"#", "0", "0", "0", "0", "8", "0">>,
       <<"#", "0", "0", "8", "0", "0", "0">>, <<"#", "8", "0", "0", "0", "0", "0">>,
       <<"#", "F", "F", "6", "B", "6", "B">>, <<"#", "4", "E", "C", "D", "C", "4">> >>

\* populateEffects
effects == <<"none", "shadow", "glow", "outline", "gradient", "rainbow">>

(***************************************************************************)
(* Inputs.                                                                 *)
(***************************************************************************)
SampleText ==
    <<"A", "B", "C", "D", "E", "F", "G", "H", "I", "J",
      "K", "L", "M", "N", "O", "P", "Q", "R", "S", "T">>

\* "max 20 chars": the documented limit of the caption
MaxCaptionLen == 20

\* a caption of MaxCaptionLen + 1 characters
OverlongText == SampleText \o <<"U">>

\* captions typed into the text field: prefixes of the sample, blank and
\* padded captions, and captions with a character outside the BMP
Texts ==
    {SubSeq(SampleText, 1, k) : k \in 0..Min(MaxTextLen, Len(SampleText))}
    \cup {<<" ", " ">>, <<" ", "A", "B", " ">>,
          <<"hi:D83D", "lo:DE00">>, <<"A", "hi:D83D", "lo:DE00", "B">>}
    \cup {OverlongText}

\* requests a caller of the renderer can make beyond what the pickers offer
CoreMoods == {"happy", "", "bored", "constructor"}
CoreTexts == {<<>>, <<"A", "B">>, <<"hi:D83D", "lo:DE00">>}
CoreColors == {colors[3], <<"#", "G", "G", "0", "0", "0", "0">>, <<"#", "1", "2">>}
CoreEffects == {effects[k] : k \in 1..Len(effects)}

\* arguments of adjustBrightness
AdjustColors ==
    {colors[k] : k \in 1..Len(colors)}
    \cup {backgroundColors[k] : k \in DOMAIN backgroundColors}
    \cup {<<"#", "f", "e", "0", "1", "0", "f">>}
Amounts == {-300, -256, -255, -50, -40, -30, -20, -1, 0, 1, 20, 50, 255, 300}

(***************************************************************************)
(* The Telegram bot (src/internal/bot/bot.go).  A pointer field is a       *)
(* record with a present flag (FALSE is the nil pointer).  A call returns  *)
(* [sent, logged, returned]: the API requests it made, the lines it        *)
(* logged, and "nil", an error, or "panic" for a nil dereference.          *)
(***************************************************************************)
AbsentUser == [present |-> FALSE, firstName |-> ""]
AbsentChat == [present |-> FALSE, id |-> 0]
AbsentMessage == [present |-> FALSE, text |-> <<>>, from |-> AbsentUser, chat |-> AbsentChat]
AbsentCallbackQuery == [present |-> FALSE, data |-> ""]

\* Update{}: neither Message nor CallbackQuery
NoUpdate == [message |-> AbsentMessage, callbackQuery |-> AbsentCallbackQuery]

\* strings.HasPrefix
HasPrefix(s, prefix) ==
    Len(s) >= Len(prefix) /\ SubSeq(s, 1, Len(prefix)) = prefix

StartCommand == <<"/", "s", "t", "a", "r", "t">>
HelpCommand == <<"/", "h", "e", "l", "p">>
CreateCommand == <<"/", "c", "r", "e", "a", "t", "e">>

\* response bodies of the Telegram API
OkBody == "{\"ok\":true,\"result\":{\"username\":\"chatmood_bot\"}}"
NotOkBody == "{\"ok\":false}"
MalformedBody == "<html>"
Bodies == {OkBody, NotOkBody, MalformedBody}

\* http.StatusOK
StatusOK == 200

\* what the HTTP exchange with the Telegram API does: an HTTP response, an
\* error of Client.Do, or an error of io.ReadAll
Response(status, body) == [kind |-> "response", status |-> status, body |-> body]
Outcomes ==
    {Response(StatusOK, b) : b \in Bodies}
    \cup {Response(201, OkBody), Response(500, NotOkBody)}
    \cup {[kind |-> "transport error", status |-> 0, body |-> ""],
          [kind |-> "read error", status |-> StatusOK, body |-> ""]}

\* a []byte result: NilBytes is nil
NilBytes == [present |-> FALSE, text |-> ""]
Bytes(text) == [present |-> TRUE, text |-> text]

\* the nil interface{} passed as data
NoData == [none |-> TRUE]

Panic == [sent |-> <<>>, logged |-> <<>>, returned |-> "panic"]

\* makeRequest: the request goes out, then Client.Do, io.ReadAll and the
\* status test decide what is returned
makeRequestAnyStatus(method, data, outcome) ==
    [sent |-> <<[method |-> method, data |-> data]>>,
     body |-> IF outcome.kind = "response" THEN Bytes(outcome.body) ELSE NilBytes,
     err  |-> IF outcome.kind = "response" THEN "nil" ELSE outcome.kind]
makeRequest(method, data, outcome) ==
    LET sending == <<[method |-> method, data |-> data]>>
    IN  CASE outcome.kind = "transport error" ->
                [sent |-> sending, body |-> NilBytes, err |-> "transport error"]
          [] outcome.kind = "read error" ->
                [sent |-> sending, body |-> NilBytes, err |-> "read error"]
          [] outcome.status # StatusOK ->
                [sent |-> sending, body |-> NilBytes,
                 err |-> "API request failed with status: " \o outcome.body]
          [] OTHER ->
                [sent |-> sending, body |-> Bytes(outcome.body), err |-> "nil"]

sendMessage(chatID, text, parseMode, outcome) ==
    LET r == makeRequest("sendMessage",
                         [chatID |-> chatID, text |-> text, parseMode |-> parseMode],
                         outcome)
    IN  [sent |-> r.sent, logged |-> <<>>, returned |-> r.err]

sendWelcomeMessage(chatID, user, outcome) ==
    IF ~user.present THEN Panic
    ELSE LET name == IF user.firstName = "" THEN "there" ELSE user.firstName
         IN  sendMessage(chatID, [phrase |-> "Welcome to ChatMood", name |-> name],
                         "Markdown", outcome)

sendHelpMessage(chatID, outcome) ==
    sendMessage(chatID, [phrase |-> "ChatMood Help", name |-> ""], "Markdown", outcome)

sendCreateMessage(chatID, outcome) ==
    sendMessage(chatID, [phrase |-> "Ready to create", name |-> ""], "Markdown", outcome)

sendDefaultMessage(chatID, outcome) ==
    sendMessage(chatID, [phrase |-> "not sure what you mean", name |-> ""], "", outcome)

\* message.Chat.ID is evaluated before the send function is entered
handleMessage(message, outcome) ==
    IF ~message.chat.present THEN Panic
    ELSE CASE HasPrefix(message.text, StartCommand) ->
                 sendWelcomeMessage(message.chat.id, message.from, outcome)
           [] HasPrefix(message.text, HelpCommand) ->
                 sendHelpMessage(message.chat.id, outcome)
           [] HasPrefix(message.text, CreateCommand) ->
                 sendCreateMessage(message.chat.id, outcome)
           [] OTHER -> sendDefaultMessage(message.chat.id, outcome)

handleCallbackQuery(query) ==
    [sent |-> <<>>, logged |-> <<<<"Received callback query: ", query.data>>>>,
     returned |-> "nil"]

HandleUpdateCallbackFirst(u, outcome) ==
    IF u.callbackQuery.present THEN handleCallbackQuery(u.callbackQuery)
    ELSE IF u.message.present THEN handleMessage(u.message, outcome)
    ELSE [sent |-> <<>>, logged |-> <<>>, returned |-> "nil"]
HandleUpdate(u, outcome) ==
    IF u.message.present THEN handleMessage(u.message, outcome)
    ELSE IF u.callbackQuery.present THEN handleCallbackQuery(u.callbackQuery)
    ELSE [sent |-> <<>>, logged |-> <<>>, returned |-> "nil"]

\* a *Bot: NilBot is the nil pointer
NilBot == [present |-> FALSE, token |-> "", username |-> "", webhookURL |-> ""]

\* getMe: the body must unmarshal and carry ok = true; Username is stored
getMeIgnoresOk(b, outcome) ==
    LET r == makeRequest("getMe", NoData, outcome)
    IN  IF r.err # "nil" THEN [bot |-> b, sent |-> r.sent, returned |-> r.err]
        ELSE IF r.body.text = MalformedBody
             THEN [bot |-> b, sent |-> r.sent, returned |-> "invalid character"]
        ELSE [bot |-> [b EXCEPT !.username = "chatmood_bot"], sent |-> r.sent,
              returned |-> "nil"]
getMe(b, outcome) ==
    LET r == makeRequest("getMe", NoData, outcome)
    IN  IF r.err # "nil" THEN [bot |-> b, sent |-> r.sent, returned |-> r.err]
        ELSE IF r.body.text = MalformedBody
             THEN [bot |-> b, sent |-> r.sent, returned |-> "invalid character"]
        ELSE IF r.body.text # OkBody
             THEN [bot |-> b, sent |-> r.sent, returned |-> "API request failed"]
        ELSE [bot |-> [b EXCEPT !.username = "chatmood_bot"], sent |-> r.sent,
              returned |-> "nil"]

setWebhook(b, outcome) ==
    LET r == makeRequest("setWebhook", [url |-> b.webhookURL \o "/webhook"], outcome)
    IN  [sent |-> r.sent, returned |-> r.err]

setCommands(b, outcome) ==
    LET r == makeRequest("setMyCommands",
                         [commands |-> <<"start", "help", "create">>], outcome)
    IN  [sent |-> r.sent, returned |-> r.err]

setMenuButton(b, outcome) ==
    LET r == makeRequest("setChatMenuButton",
                         [type |-> "web_app", url |-> b.webhookURL \o "/app"], outcome)
    IN  [sent |-> r.sent, returned |-> r.err]

\* NewBot; o1..o4 are what the exchanges of getMe, setWebhook, setMyCommands
\* and setChatMenuButton do when they are made
NewBotWebhookWarningOnly(token, webhookURL, o1, o2, o3, o4) ==
    LET b0 == [present |-> TRUE, token |-> token, username |-> "",
               webhookURL |-> webhookURL]
        g == getMe(b0, o1)
        w == IF webhookURL # "" THEN setWebhook(g.bot, o2)
             ELSE [sent |-> <<>>, returned |-> "nil"]
        c == setCommands(g.bot, o3)
        m == setMenuButton(g.bot, o4)
    IN  IF g.returned # "nil"
        THEN [bot |-> NilBot, sent |-> g.sent, logged |-> <<>>,
              returned |-> "failed to get bot info: " \o g.returned,
              exchanges |-> <<o1>>]
        ELSE [bot |-> IF w.returned # "nil" THEN NilBot ELSE g.bot,
              sent |-> g.sent \o w.sent \o c.sent \o m.sent,
              logged |-> <<>>,
              returned |-> IF w.returned # "nil"
                           THEN "failed to set webhook: " \o w.returned ELSE "nil",
              exchanges |-> <<o1>> \o (IF webhookURL # "" THEN <<o2>> ELSE <<>>)
                            \o <<o3, o4>>]
NewBot(token, webhookURL, o1, o2, o3, o4) ==
    LET b0 == [present |-> TRUE, token |-> token, username |-> "",
               webhookURL |-> webhookURL]
        g == getMe(b0, o1)
        w == IF webhookURL # "" THEN setWebhook(g.bot, o2)
             ELSE [sent |-> <<>>, returned |-> "nil"]
        c == setCommands(g.bot, o3)
        m == setMenuButton(g.bot, o4)
    IN  IF g.returned # "nil"
        THEN [bot |-> NilBot, sent |-> g.sent, logged |-> <<>>,
              returned |-> "failed to get bot info: " \o g.returned,
              exchanges |-> <<o1>>]
        ELSE IF w.returned # "nil"
        THEN [bot |-> NilBot, sent |-> g.sent \o w.sent, logged |-> <<>>,
              returned |-> "failed to set webhook: " \o w.returned,
              exchanges |-> <<o1, o2>>]
        ELSE [bot |-> g.bot,
              sent |-> g.sent \o w.sent \o c.sent \o m.sent,
              logged |->
                 (IF c.returned # "nil"
                  THEN << <<"Warning: failed to set commands: ", c.returned>> >>
                  ELSE <<>>)
                 \o (IF m.returned # "nil"
                     THEN << <<"Warning: failed to set menu button: ", m.returned>> >>
                     ELSE <<>>),
              returned |-> "nil",
              exchanges |-> <<o1>> \o (IF webhookURL # "" THEN <<o2>> ELSE <<>>)
                            \o <<o3, o4>>]

\* updates delivered to the bot
MessageTexts ==
    {StartCommand, HelpCommand, CreateCommand, StartCommand \o <<"x">>,
     <<"h", "i">>, <<" ", "/", "h", "e", "l", "p">>, <<>>}
Users == {AbsentUser, [present |-> TRUE, firstName |-> ""],
          [present |-> TRUE, firstName |-> "Test"]}
Chats == {AbsentChat, [present |-> TRUE, id |-> 123]}
Messages ==
    {AbsentMessage} \cup
    {[present |-> TRUE, text |-> t, from |-> f, chat |-> c] :
        t \in MessageTexts, f \in Users, c \in Chats}
CallbackQueries == {AbsentCallbackQuery, [present |-> TRUE, data |-> "help"]}
Updates == {[message |-> m, callbackQuery |-> q] : m \in Messages, q \in CallbackQueries}

(***************************************************************************)
(* State machine.                                                          *)
(***************************************************************************)
Machine == [ctx |-> ctx, canvas |-> canvas, threw |-> threw]

\* updatePreview on the application's own fields, with the fields as they
\* are after the handler's assignment
Rendered(mood, emoji, text, tcolor, effect) ==
    LET r == updatePreview(Machine, mood, emoji, text, tcolor, effect)
    IN  /\ ctx' = r.ctx
        /\ canvas' = r.canvas
        /\ threw' = r.threw

\* new ChatMoodApp(): the constructor's assignments, then init(): the
\* populate* defaults and the first updatePreview on the fresh context
Init ==
    LET r == updatePreview(FreshMachine, moods[1], DefaultEmoji, <<>>, colors[1], "none")
    IN  /\ palette = backgroundColors
        /\ selectedMood = moods[1]
        /\ selectedEmoji = DefaultEmoji
        /\ customText = <<>>
        /\ textColor = colors[1]
        /\ selectedEffect = "none"
        /\ highlight = [mood |-> {1}, emoji |-> {1}, color |-> {1}, effect |-> {1}]
        /\ ctx = r.ctx
        /\ canvas = r.canvas
        /\ threw = r.threw
        /\ color = Black
        /\ amount = 0
        /\ result = adjustBrightness(Black, 0)
        /\ update = NoUpdate
        /\ sent = <<>>
        /\ logged = <<>>
        /\ returned = "nil"
        /\ bot = NilBot
        /\ exchanges = <<>>
        /\ reply = [body |-> NilBytes, err |-> "nil"]
        /\ call = [fn |-> "none", args |-> <<>>]
        /\ telegram = "none"
        /\ pending = 0
        /\ responses = <<>>
        /\ notified = <<>>
        /\ closeTimers = 0
        /\ closeCalls = 0
        /\ pc = "main"
        /\ attempt = 0
        /\ probes = 0
        /\ lastProbe = "none"
        /\ exitStatus = -1
        /\ steps = <<>>

\* the 'input' listener of #customText
TextInput(t) ==
    /\ customText' = t
    /\ Rendered(selectedMood, selectedEmoji, t, textColor, selectedEffect)
    /\ UNCHANGED <<selectedMood, selectedEmoji, textColor, selectedEffect, highlight>>
    /\ UNCHANGED <<palette, utilVars, botVars, shareVars, deployVars>>

\* a mood handler that darkens the palette entry it selects
MoodClickDarkensPalette(k) ==
    /\ highlight' = [highlight EXCEPT !.mood = {k}]
    /\ selectedMood' = moods[k]
    /\ palette' = [palette EXCEPT ![moods[k]] = adjustBrightness(@, -20)]
    /\ Rendered(moods[k], selectedEmoji, customText, textColor, selectedEffect)
    /\ UNCHANGED <<selectedEmoji, customText, textColor, selectedEffect>>
    /\ UNCHANGED <<utilVars, botVars, shareVars, deployVars>>

\* click on the k-th mood button
MoodClick(k) ==
    /\ highlight' = [highlight EXCEPT !.mood = {k}]
    /\ selectedMood' = moods[k]
    /\ Rendered(moods[k], selectedEmoji, customText, textColor, selectedEffect)
    /\ UNCHANGED <<selectedEmoji, customText, textColor, selectedEffect>>
    /\ UNCHANGED <<palette, utilVars, botVars, shareVars, deployVars>>

\* click on the k-th emoji button
EmojiClick(k) ==
    /\ highlight' = [highlight EXCEPT !.emoji = {k}]
    /\ selectedEmoji' = allEmojis[k]
    /\ Rendered(selectedMood, allEmojis[k], customText, textColor, selectedEffect)
    /\ UNCHANGED <<selectedMood, customText, textColor, selectedEffect>>
    /\ UNCHANGED <<palette, utilVars, botVars, shareVars, deployVars>>

\* click on the k-th colour button
ColorClick(k) ==
    /\ highlight' = [highlight EXCEPT !.color = {k}]
    /\ textColor' = colors[k]
    /\ Rendered(selectedMood, selectedEmoji, customText, colors[k], selectedEffect)
    /\ UNCHANGED <<selectedMood, selectedEmoji, customText, selectedEffect>>
    /\ UNCHANGED <<palette, utilVars, botVars, shareVars, deployVars>>

\* click on the k-th effect button
EffectClickNoRender(k) ==
    /\ highlight' = [highlight EXCEPT !.effect = {k}]
    /\ selectedEffect' = effects[k]
    /\ UNCHANGED <<ctx, canvas, threw>>
    /\ UNCHANGED <<selectedMood, selectedEmoji, customText, textColor>>
    /\ UNCHANGED <<palette, utilVars, botVars, shareVars, deployVars>>
EffectClick(k) ==
    /\ highlight' = [highlight EXCEPT !.effect = {k}]
    /\ selectedEffect' = effects[k]
    /\ Rendered(selectedMood, selectedEmoji, customText, textColor, effects[k])
    /\ UNCHANGED <<selectedMood, selectedEmoji, customText, textColor>>
    /\ UNCHANGED <<palette, utilVars, botVars, shareVars, deployVars>>

Next ==
    \/ \E t \in Texts : TextInput(t)
    \/ \E k \in 1..Min(MaxMoodBtn, Len(moods)) : MoodClick(k)
    \/ \E k \in 1..Min(MaxEmojiBtn, Len(allEmojis)) : EmojiClick(k)
    \/ \E k \in 1..Min(MaxColorBtn, Len(colors)) : ColorClick(k)
    \/ \E k \in 1..Len(effects) : EffectClick(k)

Spec == Init /\ [][Next]_vars

\* the web app with every mood button in use and two captions
NextAllMoods ==
    \/ \E t \in {<<>>, <<"A", "B">>} : TextInput(t)
    \/ \E k \in 1..Len(moods) : MoodClick(k)
    \/ \E k \in 1..Min(MaxColorBtn, Len(colors)) : ColorClick(k)
    \/ \E k \in 1..Len(effects) : EffectClick(k)

SpecAllMoods == Init /\ [][NextAllMoods]_vars

\* the renderer called with a request of the caller's choice: the five
\* fields it reads hold the request, the context is the one left by the
\* renders before
Compose(mood, text, tcolor, effect) ==
    /\ selectedMood' = mood
    /\ customText' = text
    /\ textColor' = tcolor
    /\ selectedEffect' = effect
    /\ Rendered(mood, selectedEmoji, text, tcolor, effect)
    /\ UNCHANGED <<selectedEmoji, highlight>>
    /\ UNCHANGED <<palette, utilVars, botVars, shareVars, deployVars>>

NextCore ==
    \E mood \in CoreMoods, text \in CoreTexts, tcolor \in CoreColors, effect \in CoreEffects :
        Compose(mood, text, tcolor, effect)

SpecCore == Init /\ [][NextCore]_vars

\* a call of adjustBrightness(c, a)
AdjustCall(c, a) ==
    /\ color' = c
    /\ amount' = a
    /\ result' = adjustBrightness(c, a)
    /\ UNCHANGED <<appVars, botVars, shareVars, deployVars>>

NextAdjust == \E c \in AdjustColors, a \in Amounts : AdjustCall(c, a)

SpecAdjust == Init /\ [][NextAdjust]_vars

\* a webhook delivery: HandleUpdate(update)
HandleUpdateCall(u, outcome) ==
    LET r == HandleUpdate(u, outcome)
    IN  /\ update' = u
        /\ sent' = r.sent
        /\ logged' = r.logged
        /\ returned' = r.returned
        /\ exchanges' = IF r.sent = <<>> THEN <<>> ELSE <<outcome>>
        /\ call' = [fn |-> "HandleUpdate", args |-> <<>>]
        /\ UNCHANGED <<bot, reply, appVars, utilVars, shareVars, deployVars>>

NextBot == \E u \in Updates, outcome \in Outcomes : HandleUpdateCall(u, outcome)

SpecBot == Init /\ [][NextBot]_vars

(***************************************************************************)
(* Sharing (shareSticker, showNotification).                               *)
(***************************************************************************)
\* share clicks made in one session
MaxShares == 3

SuccessNotification == [message |-> "Sticker shared successfully!", type |-> "success"]
ErrorNotification ==
    [message |-> "Failed to share sticker. Please try again.", type |-> "error"]

\* showNotification: the element is appended, then the haptic feedback is
\* requested when window.Telegram.WebApp exists
showNotification(n, tg) ==
    [shown |-> <<n>>, threw |-> tg = "webapp without haptic"]

\* the page is opened inside Telegram: telegram-web-app.js defines
\* window.Telegram before the application starts ("none" is a plain
\* browser; HapticFeedback is missing in an old client)
OpenInTelegram(kind) ==
    /\ telegram = "none"
    /\ kind # "none"
    /\ pending = 0
    /\ responses = <<>>
    /\ telegram' = kind
    /\ UNCHANGED <<pending, responses, notified, closeTimers, closeCalls>>
    /\ UNCHANGED <<appVars, utilVars, botVars, deployVars>>

\* shareSticker up to the await: the request is sent
ShareClick ==
    /\ Len(responses) + pending < MaxShares
    /\ pending' = pending + 1
    /\ UNCHANGED <<telegram, responses, notified, closeTimers, closeCalls>>
    /\ UNCHANGED <<appVars, utilVars, botVars, deployVars>>

\* shareSticker after the await: the try block and the catch block
FetchSettlesClosesAlways(outcome) ==
    LET first == IF outcome = "ok" THEN showNotification(SuccessNotification, telegram)
                 ELSE [shown |-> <<>>, threw |-> TRUE]
        caught == IF first.threw THEN showNotification(ErrorNotification, telegram).shown
                  ELSE <<>>
    IN  /\ pending > 0
        /\ pending' = pending - 1
        /\ responses' = Append(responses, outcome)
        /\ notified' = Append(notified, first.shown \o caught)
        /\ closeTimers' = IF telegram # "none" THEN closeTimers + 1 ELSE closeTimers
        /\ UNCHANGED <<telegram, closeCalls>>
        /\ UNCHANGED <<appVars, utilVars, botVars, deployVars>>
FetchSettles(outcome) ==
    LET first == IF outcome = "ok" THEN showNotification(SuccessNotification, telegram)
                 ELSE [shown |-> <<>>, threw |-> TRUE]
        caught == IF first.threw THEN showNotification(ErrorNotification, telegram).shown
                  ELSE <<>>
    IN  /\ pending > 0
        /\ pending' = pending - 1
        /\ responses' = Append(responses, outcome)
        /\ notified' = Append(notified, first.shown \o caught)
        /\ closeTimers' = IF outcome = "ok" /\ ~first.threw /\ telegram # "none"
                          THEN closeTimers + 1 ELSE closeTimers
        /\ UNCHANGED <<telegram, closeCalls>>
        /\ UNCHANGED <<appVars, utilVars, botVars, deployVars>>

\* the 1500 ms timer: window.Telegram.WebApp.close()
CloseTimerFires ==
    /\ closeTimers > 0
    /\ closeTimers' = closeTimers - 1
    /\ closeCalls' = closeCalls + 1
    /\ UNCHANGED <<telegram, pending, responses, notified>>
    /\ UNCHANGED <<appVars, utilVars, botVars, deployVars>>

\* fetch('/api/share-sticker') gives a response with ok true or false, or
\* rejects
NextShare ==
    \/ \E kind \in {"webapp", "webapp without haptic"} : OpenInTelegram(kind)
    \/ ShareClick
    \/ \E outcome \in {"ok", "not ok", "network error"} : FetchSettles(outcome)
    \/ CloseTimerFires

SpecShare == Init /\ [][NextShare]_vars

(***************************************************************************)
(* deploy.sh: main from health_check on (set -e is in force).              *)
(***************************************************************************)
\* local max_attempts=30
max_attempts == 30

\* exit 1
Exit(code) ==
    /\ pc' = "exited"
    /\ exitStatus' = code

\* main calls health_check: the log line and the two locals
HealthCheckStart ==
    /\ pc = "main"
    /\ pc' = "while"
    /\ attempt' = 1
    /\ steps' = Append(steps, "health_check")
    /\ UNCHANGED <<probes, lastProbe, exitStatus>>
    /\ UNCHANGED <<appVars, utilVars, botVars, shareVars>>

\* [[ $attempt -le $max_attempts ]]
LoopGuardExclusive(a) == a < max_attempts
LoopGuard(a) == a <= max_attempts

LoopTest ==
    /\ pc = "while"
    /\ pc' = IF LoopGuard(attempt) THEN "curl" ELSE "error"
    /\ UNCHANGED <<attempt, probes, lastProbe, exitStatus, steps>>
    /\ UNCHANGED <<appVars, utilVars, botVars, shareVars>>

\* if curl -f -s "http://localhost/health": the probe answers or fails
Probe(ok) ==
    /\ pc = "curl"
    /\ probes' = probes + 1
    /\ lastProbe' = IF ok THEN "ok" ELSE "failed"
    /\ pc' = IF ok THEN "return" ELSE "sleep"
    /\ UNCHANGED <<attempt, exitStatus, steps>>
    /\ UNCHANGED <<appVars, utilVars, botVars, shareVars>>

\* log "Health check passed"; return 0: main goes on
Passed ==
    /\ pc = "return"
    /\ pc' = "setup_log_rotation"
    /\ UNCHANGED <<attempt, probes, lastProbe, exitStatus, steps>>
    /\ UNCHANGED <<appVars, utilVars, botVars, shareVars>>

\* info "... retrying in 5 seconds..."; sleep 5
Retry ==
    /\ pc = "sleep"
    /\ pc' = "increment"
    /\ UNCHANGED <<attempt, probes, lastProbe, exitStatus, steps>>
    /\ UNCHANGED <<appVars, utilVars, botVars, shareVars>>

\* ((attempt++)): the command fails when the value of the expression, the
\* old $attempt, is 0, and set -e then ends the script
Increment ==
    /\ pc = "increment"
    /\ attempt' = attempt + 1
    /\ IF attempt = 0 THEN Exit(1) ELSE pc' = "while" /\ UNCHANGED exitStatus
    /\ UNCHANGED <<probes, lastProbe, steps>>
    /\ UNCHANGED <<appVars, utilVars, botVars, shareVars>>

\* error "Health check failed after $max_attempts attempts"
Fail ==
    /\ pc = "error"
    /\ Exit(1)
    /\ UNCHANGED <<attempt, probes, lastProbe, steps>>
    /\ UNCHANGED <<appVars, utilVars, botVars, shareVars>>

\* setup_log_rotation and cleanup: a failing command ends the script
RunStep(step, next, ok) ==
    /\ pc = step
    /\ steps' = Append(steps, step)
    /\ IF ok THEN pc' = next /\ exitStatus' = (IF next = "done" THEN 0 ELSE exitStatus)
       ELSE Exit(1)
    /\ UNCHANGED <<attempt, probes, lastProbe>>
    /\ UNCHANGED <<appVars, utilVars, botVars, shareVars>>

NextDeploy ==
    \/ HealthCheckStart
    \/ LoopTest
    \/ \E ok \in BOOLEAN : Probe(ok)
    \/ Passed
    \/ Retry
    \/ Increment
    \/ Fail
    \/ \E ok \in BOOLEAN : RunStep("setup_log_rotation", "cleanup", ok)
    \/ \E ok \in BOOLEAN : RunStep("cleanup", "done", ok)

SpecDeploy == Init /\ [][NextDeploy]_vars

\* the shell runs the next command of the script
SpecDeployFair == SpecDeploy /\ WF_vars(NextDeploy)

\* start-up: NewBot(token, webhookURL)
NewBotCall(token, webhookURL, o1, o2, o3, o4) ==
    LET r == NewBot(token, webhookURL, o1, o2, o3, o4)
    IN  /\ bot' = r.bot
        /\ sent' = r.sent
        /\ logged' = r.logged
        /\ returned' = r.returned
        /\ exchanges' = r.exchanges
        /\ call' = [fn |-> "NewBot", args |-> <<token, webhookURL>>]
        /\ UNCHANGED <<update, reply, appVars, utilVars, shareVars, deployVars>>

NextNewBot ==
    \E token \in {"test_token"}, webhookURL \in {"", "https://example.com"},
       o1, o2, o3, o4 \in Outcomes :
        NewBotCall(token, webhookURL, o1, o2, o3, o4)

SpecNewBot == Init /\ [][NextNewBot]_vars

\* the bot the API functions are called on
TestBot == [present |-> TRUE, token |-> "test_token", username |-> "",
            webhookURL |-> "https://example.com"]

\* a call of fn that made one exchange and returned err
Called(fn, r, err, outcome) ==
    /\ call' = [fn |-> fn, args |-> <<>>]
    /\ sent' = r.sent
    /\ returned' = err
    /\ exchanges' = <<outcome>>
    /\ logged' = <<>>
    /\ UNCHANGED <<update, appVars, utilVars, shareVars, deployVars>>

MakeRequestCall(method, outcome) ==
    LET r == makeRequest(method, NoData, outcome)
    IN  /\ Called("makeRequest", r, r.err, outcome)
        /\ reply' = [body |-> r.body, err |-> r.err]
        /\ UNCHANGED bot

GetMeCall(outcome) ==
    LET r == getMe(TestBot, outcome)
    IN  /\ Called("getMe", r, r.returned, outcome)
        /\ bot' = r.bot
        /\ UNCHANGED reply

SetWebhookCall(outcome) ==
    LET r == setWebhook(TestBot, outcome)
    IN  Called("setWebhook", r, r.returned, outcome) /\ UNCHANGED <<bot, reply>>

SetCommandsCall(outcome) ==
    LET r == setCommands(TestBot, outcome)
    IN  Called("setCommands", r, r.returned, outcome) /\ UNCHANGED <<bot, reply>>

SetMenuButtonCall(outcome) ==
    LET r == setMenuButton(TestBot, outcome)
    IN  Called("setMenuButton", r, r.returned, outcome) /\ UNCHANGED <<bot, reply>>

SendMessageCall(chatID, outcome) ==
    LET r == sendMessage(chatID, [phrase |-> "hello", name |-> ""], "", outcome)
    IN  Called("sendMessage", r, r.returned, outcome) /\ UNCHANGED <<bot, reply>>

NextApi ==
    \/ \E method \in {"getMe", "sendMessage"}, outcome \in Outcomes :
          MakeRequestCall(method, outcome)
    \/ \E outcome \in Outcomes : GetMeCall(outcome)
    \/ \E outcome \in Outcomes : SetWebhookCall(outcome)
    \/ \E outcome \in Outcomes : SetCommandsCall(outcome)
    \/ \E outcome \in Outcomes : SetMenuButtonCall(outcome)
    \/ \E chatID \in {123, 456}, outcome \in Outcomes : SendMessageCall(chatID, outcome)

SpecApi == Init /\ [][NextApi]_vars

(***************************************************************************)
(* Vocabulary of the properties.                                           *)
(***************************************************************************)
Caption == Trim(customText)

\* the draw operations of the text stage, in order: the ones made in the
\* caption font
IsTextDraw(e) == e.font = TextFont
TextDraws == SelectSeq(canvas, IsTextDraw)

Saturate(v) == IF v > 255 THEN 255 ELSE IF v < 0 THEN 0 ELSE v

\* colour d is colour s with every channel moved by a and saturated
IsShifted(d, s, a) ==
    /\ IsHexColor(d)
    /\ \A k \in 1..3 : Channels(d)[k] = Saturate(Channels(s)[k] + a)

Solid(s) == [kind |-> "color", color |-> s]

(***************************************************************************)
(* C1.  For every 6-digit hex colour c and every amount a,                 *)
(* adjustBrightness(c, a) is the colour whose R, G and B channels are each *)
(* min(255, max(0, channel + a)): saturating, never wrapping.              *)
(***************************************************************************)
C1_AdjustBrightnessSaturates ==
    IsHexColor(color) => IsShifted(result, color, amount)

\* (#000000, +300) has been computed and gave #FFFFFF
C1_Witness ==
    /\ color = Black
    /\ amount = 300
    /\ Channels(result) = <<255, 255, 255>>

(***************************************************************************)
(* C2.  As claimed: with effect outline and a non-empty caption the text   *)
(* stage strokes the caption once and performs no fill of the caption.     *)
(***************************************************************************)
C2_OutlineNeverFills ==
    (selectedEffect = "outline" /\ Caption # <<>>) =>
        /\ Len(SelectSeq(TextDraws, LAMBDA e : e.op = "strokeText")) = 1
        /\ \A i \in 1..Len(TextDraws) : TextDraws[i].op # "fillText"

(***************************************************************************)
(* C2, amended.  With effect outline and a non-empty caption the text      *)
(* stage strokes the caption once at (256,400), stroke colour textColor    *)
(* darkened by 40 per channel and stroke width 4, and then fills the       *)
(* caption once at (256,400) in textColor; nothing else is drawn.          *)
(***************************************************************************)
C2_OutlineStrokesThenFills ==
    (selectedEffect = "outline" /\ Caption # <<>>) =>
        /\ Len(TextDraws) = 2
        /\ TextDraws[1].op = "strokeText"
        /\ TextDraws[1].text = Caption
        /\ TextDraws[1].x = FromInt(256) /\ TextDraws[1].y = FromInt(400)
        /\ TextDraws[1].style.kind = "color"
        /\ IsShifted(TextDraws[1].style.color, textColor, -40)
        /\ TextDraws[1].lineWidth = 4
        /\ TextDraws[2].op = "fillText"
        /\ TextDraws[2].text = Caption
        /\ TextDraws[2].x = FromInt(256) /\ TextDraws[2].y = FromInt(400)
        /\ TextDraws[2].style = Solid(textColor)

\* an outline render of a caption in a colour that darkening changes
C2_Witness ==
    /\ selectedEffect = "outline"
    /\ Caption # <<>>
    /\ textColor = White
    /\ Len(TextDraws) = 2
    /\ TextDraws[1].op = "strokeText"

(***************************************************************************)
(* C3.  The halo (blur 10, colour textColor) is in force only while the    *)
(* main text of a glow render is filled: every other draw operation of     *)
(* every render is made without shadow, and the blur is 0 when the render  *)
(* ends.                                                                   *)
(***************************************************************************)
C3_HaloOnlyOnGlowText ==
    /\ ctx.shadowBlur = 0
    /\ \A i \in 1..Len(canvas) :
          canvas[i].shadow # NoShadow =>
              /\ selectedEffect = "glow"
              /\ canvas[i].op = "fillText"
              /\ IsTextDraw(canvas[i])
              /\ canvas[i].text = Caption
              /\ canvas[i].shadow = [color |-> textColor, blur |-> 10,
                                     offsetX |-> 0, offsetY |-> 0]
    /\ (selectedEffect = "glow" /\ Caption # <<>>) =>
          /\ Len(TextDraws) = 1
          /\ TextDraws[1].shadow.blur = 10
          /\ TextDraws[1].shadow.color = textColor

\* a glow render whose caption was filled with the halo
C3_Witness ==
    /\ selectedEffect = "glow"
    /\ \E i \in 1..Len(canvas) : canvas[i].shadow.blur = 10 /\ canvas[i].text = Caption
    /\ canvas[Len(canvas)].op = "strokeRect"

(***************************************************************************)
(* C4.  The draw operations of a render, with their drawing parameters,    *)
(* depend on (mood, emoji, text, textColor, effect) only: they are the     *)
(* ones the same request gives on a context nothing was drawn on, whatever *)
(* was rendered on the canvas before.                                      *)
(***************************************************************************)
C4_RenderIgnoresHistory ==
    LET first == updatePreview(FreshMachine, selectedMood, selectedEmoji,
                               customText, textColor, selectedEffect)
    IN  /\ canvas = first.canvas
        /\ threw = first.threw

\* a render made on a context that an earlier glow render left its shadow
\* colour and an earlier caption its font settings in
C4_Witness ==
    /\ ctx.shadowColor # FreshContext.shadowColor
    /\ selectedEffect # "glow"
    /\ Caption # <<>>
    /\ Len(canvas) >= 5

(***************************************************************************)
(* C5.  For every mood that is not one of the eight defined moods the      *)
(* background is drawn with base colour #FFE066 and the render completes   *)
(* without failure (stated for requests whose textColor is well formed).   *)
(***************************************************************************)
C5_UnknownMoodFallsBack ==
    (selectedMood \notin DOMAIN backgroundColors /\ IsHexColor(textColor)) =>
        /\ ~threw
        /\ Len(canvas) >= 1
        /\ canvas[1].op = "fillRect"
        /\ canvas[1].style.kind = "radial"
        /\ canvas[1].style.stops[1] = <<0, DefaultBackground>>
        /\ canvas[Len(canvas)].op = "strokeRect"

(***************************************************************************)
(* C6.  A textColor that is not a well-formed hex colour is reported as a  *)
(* failure before any draw operation: the render fails and nothing has     *)
(* been drawn.                                                             *)
(***************************************************************************)
C6_MalformedColorRejectedBeforeDrawing ==
    ~IsHexColor(textColor) => (threw /\ canvas = <<>>)

(***************************************************************************)
(* C7.  With effect rainbow the glyphs are drawn in text order and the     *)
(* i-th glyph drawn (0-based) is filled with entry i mod 7 of the cycle    *)
(* red, orange, yellow, green, blue, indigo, violet.                       *)
(***************************************************************************)
C7_RainbowCycle ==
    (selectedEffect = "rainbow" /\ Caption # <<>>) =>
        /\ Len(TextDraws) >= 1
        /\ \A i \in 0..(Len(TextDraws) - 1) :
              /\ TextDraws[i + 1].op = "fillText"
              /\ i < Len(Caption)
              /\ TextDraws[i + 1].text = <<Caption[i + 1]>>
              /\ TextDraws[i + 1].style =
                    Solid(CASE i % 7 = 0 -> <<"#", "F", "F", "0", "0", "0", "0">>
                            [] i % 7 = 1 -> <<"#", "F", "F", "7", "F", "0", "0">>
                            [] i % 7 = 2 -> <<"#", "F", "F", "F", "F", "0", "0">>
                            [] i % 7 = 3 -> <<"#", "0", "0", "F", "F", "0", "0">>
                            [] i % 7 = 4 -> <<"#", "0", "0", "0", "0", "F", "F">>
                            [] i % 7 = 5 -> <<"#", "4", "B", "0", "0", "8", "2">>
                            [] i % 7 = 6 -> <<"#", "9", "4", "0", "0", "D", "3">>)

\* a rainbow render of eight glyphs: the eighth is red again
C7_Witness ==
    /\ selectedEffect = "rainbow"
    /\ Len(TextDraws) >= 8
    /\ TextDraws[7].style = Solid(<<"#", "9", "4", "0", "0", "D", "3">>)
    /\ TextDraws[8].style = Solid(<<"#", "F", "F", "0", "0", "0", "0">>)

(***************************************************************************)
(* C8.  With effect rainbow the number of glyph draws equals the number of *)
(* Unicode characters of the trimmed text, characters outside the Basic    *)
(* Multilingual Plane included.                                            *)
(***************************************************************************)
C8_RainbowOneDrawPerCharacter ==
    (selectedEffect = "rainbow" /\ Caption # <<>>) =>
        Len(TextDraws) = Len(CodePoints(Caption))

(***************************************************************************)
(* C9.  With effect rainbow on a text of n characters of measured width W, *)
(* character i (0-based) is drawn centred at                               *)
(* x = 256 - W/2 + i*(W/n) + W/(2n), that is 2n*x = 512n - nW + 2iW + W.   *)
(***************************************************************************)
C9_RainbowPositions ==
    (selectedEffect = "rainbow" /\ Caption # <<>>) =>
        LET chars == CodePoints(Caption)
            n == Len(chars)
            W == MeasureTextWidth(Caption)
        IN  \A i \in 0..(n - 1) :
               /\ i + 1 <= Len(TextDraws)
               /\ TextDraws[i + 1].x.n * (2 * n) =
                     TextDraws[i + 1].x.d * (512 * n - n * W + 2 * i * W + W)

(***************************************************************************)
(* C10.  When the text is empty after trimming, the text stage draws       *)
(* nothing and changes no context setting: canvas and context are the ones *)
(* that background, emoji and border alone produce.                        *)
(***************************************************************************)
C10_EmptyTextIsNoOp ==
    Caption = <<>> =>
        LET start == [ctx |-> FreshContext, canvas |-> <<>>, threw |-> FALSE]
            plain == BorderStage(EmojiStage(BackgroundStage(start, selectedMood),
                                            selectedEmoji))
        IN  /\ canvas = plain.canvas
            /\ Len(canvas) = 4
            /\ ctx = [plain.ctx EXCEPT !.shadowColor = ctx.shadowColor]

\* a blank (not empty) caption rendered with an effect selected
C10_Witness ==
    /\ customText = <<" ", " ">>
    /\ selectedEffect = "glow"
    /\ Len(canvas) = 4
    /\ canvas[4].op = "strokeRect"

(***************************************************************************)
(* C11.  In every render the draw operations occur in this order: the      *)
(* background gradient fill of the whole canvas, the emoji shadow copy at  *)
(* (258,258) in 20% black, the solid emoji at (256,256), the text stage    *)
(* (if the text is non-empty), the border stroke, which is the last draw.  *)
(***************************************************************************)
C11_StageOrder ==
    /\ ~threw
    /\ Len(canvas) >= 4
    /\ canvas[1].op = "fillRect"
    /\ canvas[1].style.kind = "radial"
    /\ <<canvas[1].x, canvas[1].y, canvas[1].w, canvas[1].h>> =
          <<FromInt(0), FromInt(0), 512, 512>>
    /\ canvas[2].op = "fillText"
    /\ canvas[2].text = selectedEmoji
    /\ <<canvas[2].x, canvas[2].y>> = <<FromInt(258), FromInt(258)>>
    /\ canvas[2].style = Solid(<<"rgba(0, 0, 0, 0.2)">>)
    /\ canvas[3].op = "fillText"
    /\ canvas[3].text = selectedEmoji
    /\ <<canvas[3].x, canvas[3].y>> = <<FromInt(256), FromInt(256)>>
    /\ canvas[3].style = Solid(Black)
    /\ \A i \in 4..(Len(canvas) - 1) :
          /\ canvas[i].op \in {"fillText", "strokeText"}
          /\ canvas[i].y \in {FromInt(400), FromInt(403)}
    /\ (Caption # <<>>) <=> (Len(canvas) >= 5)
    /\ canvas[Len(canvas)].op = "strokeRect"
    /\ \A i \in 1..(Len(canvas) - 1) : canvas[i].op # "strokeRect"

\* a render with a caption: five stages have drawn
C11_Witness ==
    /\ Caption # <<>>
    /\ Len(canvas) >= 5
    /\ canvas[1].op = "fillRect"
    /\ canvas[4].y = FromInt(400)
    /\ canvas[Len(canvas)].op = "strokeRect"

(***************************************************************************)
(* C12.  With effect shadow and a non-empty caption the text stage first   *)
(* fills a copy of the caption at (259,403) in 50% black and then fills    *)
(* the caption at (256,400) in textColor: exactly these two fills, in this *)
(* order.                                                                  *)
(***************************************************************************)
C12_ShadowThenMain ==
    (selectedEffect = "shadow" /\ Caption # <<>>) =>
        /\ Len(TextDraws) = 2
        /\ TextDraws[1].op = "fillText"
        /\ TextDraws[1].text = Caption
        /\ <<TextDraws[1].x, TextDraws[1].y>> = <<FromInt(259), FromInt(403)>>
        /\ TextDraws[1].style = Solid(<<"rgba(0, 0, 0, 0.5)">>)
        /\ TextDraws[2].op = "fillText"
        /\ TextDraws[2].text = Caption
        /\ <<TextDraws[2].x, TextDraws[2].y>> = <<FromInt(256), FromInt(400)>>
        /\ TextDraws[2].style = Solid(textColor)

\* a shadow render of a caption in a colour other than black
C12_Witness ==
    /\ selectedEffect = "shadow"
    /\ Caption # <<>>
    /\ textColor # Black
    /\ Len(TextDraws) = 2
    /\ TextDraws[1].y = FromInt(403)

(***************************************************************************)
(* C13.  With effect gradient and a non-empty caption the caption is       *)
(* filled exactly once, with a vertical linear gradient from y = 376 to    *)
(* y = 424 whose stop 0 is textColor and whose stop 1 is textColor with    *)
(* every channel lowered by 30; no plain textColor fill follows.           *)
(***************************************************************************)
C13_GradientFill ==
    (selectedEffect = "gradient" /\ Caption # <<>>) =>
        /\ Len(TextDraws) = 1
        /\ TextDraws[1].op = "fillText"
        /\ TextDraws[1].text = Caption
        /\ <<TextDraws[1].x, TextDraws[1].y>> = <<FromInt(256), FromInt(400)>>
        /\ TextDraws[1].style.kind = "linear"
        /\ TextDraws[1].style.from = <<0, 376>>
        /\ TextDraws[1].style.to = <<0, 424>>
        /\ Len(TextDraws[1].style.stops) = 2
        /\ TextDraws[1].style.stops[1] = <<0, textColor>>
        /\ TextDraws[1].style.stops[2][1] = 1
        /\ IsShifted(TextDraws[1].style.stops[2][2], textColor, -30)

\* a gradient render of a caption in white: the lower stop is #e1e1e1
C13_Witness ==
    /\ selectedEffect = "gradient"
    /\ Caption # <<>>
    /\ textColor = White
    /\ Len(TextDraws) = 1
    /\ TextDraws[1].style.kind = "linear"
    /\ Channels(TextDraws[1].style.stops[2][2]) = <<225, 225, 225>>

(***************************************************************************)
(* C14.  A render with a non-empty caption executes exactly one of the     *)
(* six effect branches: what one branch draws (a 50% black copy, a halo, a *)
(* stroke, a gradient fill, per-glyph fills) appears only under its own    *)
(* effect.  With effect none the caption is filled exactly once, at        *)
(* (256,400), in textColor, and nothing else is drawn by the text stage.   *)
(***************************************************************************)
C14_OneBranch ==
    Caption # <<>> =>
        /\ \A i \in 1..Len(TextDraws) :
              /\ TextDraws[i].style = Solid(<<"rgba(0, 0, 0, 0.5)">>)
                    => selectedEffect = "shadow"
              /\ TextDraws[i].shadow # NoShadow => selectedEffect = "glow"
              /\ TextDraws[i].op = "strokeText" => selectedEffect = "outline"
              /\ TextDraws[i].style.kind = "linear" => selectedEffect = "gradient"
              /\ (Len(Caption) > 1 /\ Len(TextDraws[i].text) < Len(Caption))
                    => selectedEffect = "rainbow"
        /\ selectedEffect = "shadow" => \E i \in 1..Len(TextDraws) :
              TextDraws[i].style = Solid(<<"rgba(0, 0, 0, 0.5)">>)
        /\ selectedEffect = "glow" => \E i \in 1..Len(TextDraws) :
              TextDraws[i].shadow # NoShadow
        /\ selectedEffect = "outline" => \E i \in 1..Len(TextDraws) :
              TextDraws[i].op = "strokeText"
        /\ selectedEffect = "gradient" => \E i \in 1..Len(TextDraws) :
              TextDraws[i].style.kind = "linear"
        /\ selectedEffect = "rainbow" => \A i \in 1..Len(TextDraws) :
              Len(TextDraws[i].text) = 1
        /\ selectedEffect = "none" =>
              /\ Len(TextDraws) = 1
              /\ TextDraws[1].op = "fillText"
              /\ TextDraws[1].text = Caption
              /\ <<TextDraws[1].x, TextDraws[1].y>> = <<FromInt(256), FromInt(400)>>
              /\ TextDraws[1].style = Solid(textColor)
              /\ TextDraws[1].shadow = NoShadow

\* a caption of several glyphs rendered with effect none
C14_Witness ==
    /\ selectedEffect = "none"
    /\ Len(Caption) > 1
    /\ Len(TextDraws) = 1
    /\ TextDraws[1].style = Solid(textColor)

(***************************************************************************)
(* C15.  For each of the eight moods the background is a radial gradient   *)
(* centred at (256,256) with radii 0 and 300 whose stop 0 is the mood's    *)
(* palette colour and whose stop 1 is that colour with every channel       *)
(* lowered by 20.                                                          *)
(***************************************************************************)
C15_MoodBackground ==
    LET base == CASE selectedMood = "happy"   -> <<"#", "F", "F", "E", "0", "6", "6">>
                  [] selectedMood = "sad"     -> <<"#", "8", "7", "C", "E", "E", "B">>
                  [] selectedMood = "angry"   -> <<"#", "F", "F", "6", "B", "6", "B">>
                  [] selectedMood = "excited" -> <<"#", "F", "F", "8", "E", "5", "3">>
                  [] selectedMood = "calm"    -> <<"#", "9", "E", "C", "A", "E", "1">>
                  [] selectedMood = "love"    -> <<"#", "F", "F", "B", "6", "C", "1">>
                  [] selectedMood = "cool"    -> <<"#", "9", "8", "F", "B", "9", "8">>
                  [] selectedMood = "tired"   -> <<"#", "D", "D", "A", "0", "D", "D">>
        bg == canvas[1].style
    IN  /\ Len(canvas) >= 1
        /\ canvas[1].op = "fillRect"
        /\ bg.kind = "radial"
        /\ bg.from = <<256, 256, 0>>
        /\ bg.to = <<256, 256, 300>>
        /\ Len(bg.stops) = 2
        /\ bg.stops[1] = <<0, base>>
        /\ bg.stops[2][1] = 1
        /\ IsShifted(bg.stops[2][2], base, -20)

\* the eighth mood rendered: #DDA0DD darkened to (201,140,201)
C15_Witness ==
    /\ selectedMood = "tired"
    /\ canvas[1].style.kind = "radial"
    /\ canvas[1].style.stops[1] = <<0, <<"#", "D", "D", "A", "0", "D", "D">> >>
    /\ Channels(canvas[1].style.stops[2][2]) = <<201, 140, 201>>

(***************************************************************************)
(* C16.  A caption reaches the text stage only if it has at most 20        *)
(* characters: a longer input is rejected before rendering and never       *)
(* drawn.                                                                  *)
(***************************************************************************)
C16_OverlongCaptionNeverDrawn ==
    Len(TextDraws) > 0 => Len(CodePoints(customText)) <= MaxCaptionLen

(***************************************************************************)
(* C17.  The mood palette and the rainbow cycle are never modified: after  *)
(* any sequence of UI events and renders every mood maps to its initial    *)
(* colour and a rainbow render uses the initial seven colours in the       *)
(* initial order.                                                          *)
(***************************************************************************)
C17_TablesNeverChange ==
    /\ DOMAIN palette =
          {"happy", "sad", "angry", "excited", "calm", "love", "cool", "tired"}
    /\ palette.happy   = <<"#", "F", "F", "E", "0", "6", "6">>
    /\ palette.sad     = <<"#", "8", "7", "C", "E", "E", "B">>
    /\ palette.angry   = <<"#", "F", "F", "6", "B", "6", "B">>
    /\ palette.excited = <<"#", "F", "F", "8", "E", "5", "3">>
    /\ palette.calm    = <<"#", "9", "E", "C", "A", "E", "1">>
    /\ palette.love    = <<"#", "F", "F", "B", "6", "C", "1">>
    /\ palette.cool    = <<"#", "9", "8", "F", "B", "9", "8">>
    /\ palette.tired   = <<"#", "D", "D", "A", "0", "D", "D">>
    /\ (selectedEffect = "rainbow" /\ Len(TextDraws) >= 7) =>
          <<TextDraws[1].style.color, TextDraws[2].style.color, TextDraws[3].style.color,
            TextDraws[4].style.color, TextDraws[5].style.color, TextDraws[6].style.color,
            TextDraws[7].style.color>> =
          << <<"#", "F", "F", "0", "0", "0", "0">>, <<"#", "F", "F", "7", "F", "0", "0">>,
             <<"#", "F", "F", "F", "F", "0", "0">>, <<"#", "0", "0", "F", "F", "0", "0">>,
             <<"#", "0", "0", "0", "0", "F", "F">>, <<"#", "4", "B", "0", "0", "8", "2">>,
             <<"#", "9", "4", "0", "0", "D", "3">> >>

\* a mood other than the default was clicked and a rainbow render of seven
\* glyphs or more was made
C17_Witness ==
    /\ selectedMood = "sad"
    /\ highlight.mood = {2}
    /\ selectedEffect = "rainbow"
    /\ Len(TextDraws) >= 7
    /\ palette.sad = <<"#", "8", "7", "C", "E", "E", "B">>

(***************************************************************************)
(* C18.  Every render of a text of 0 to 20 characters runs to completion:  *)
(* it performs the border stroke as its last draw, and the rainbow loop    *)
(* executes exactly as many iterations as the text has characters.         *)
(***************************************************************************)
C18_RenderCompletes ==
    Len(CodePoints(customText)) <= MaxCaptionLen =>
    /\ ~threw
    /\ Len(canvas) >= 1
    /\ canvas[Len(canvas)].op = "strokeRect"
    /\ (selectedEffect = "rainbow" /\ Caption # <<>>) =>
          Len(SelectSeq(canvas, LAMBDA e : IsTextDraw(e) /\ e.op = "fillText"))
             = Len(CodePoints(Caption))

(***************************************************************************)
(* C19.  With effect rainbow the render does not depend on textColor: the  *)
(* draw operations are the ones the same mood, emoji and text give with    *)
(* any other colour of the picker.                                         *)
(***************************************************************************)
C19_RainbowIgnoresTextColor ==
    selectedEffect = "rainbow" =>
        \A k \in 1..Len(colors) :
            canvas = updatePreview(FreshMachine, selectedMood, selectedEmoji,
                                   customText, colors[k], "rainbow").canvas

\* a rainbow render of a caption made with white selected
C19_Witness ==
    /\ selectedEffect = "rainbow"
    /\ textColor = White
    /\ Len(TextDraws) >= 2

(***************************************************************************)
(* C20.  HandleUpdate handles the message when the update carries one,     *)
(* otherwise the callback query when it carries one, otherwise nothing;    *)
(* for an update without a message it sends no Telegram request and        *)
(* returns nil.                                                            *)
(***************************************************************************)
C20_HandleUpdateDispatch ==
    /\ update.message.present =>
          /\ logged = <<>>
          /\ returned # "panic" =>
                /\ Len(sent) = 1
                /\ sent[1].method = "sendMessage"
                /\ sent[1].data.chatID = update.message.chat.id
    /\ ~update.message.present =>
          /\ sent = <<>>
          /\ returned = "nil"
          /\ update.callbackQuery.present =>
                logged = << <<"Received callback query: ", update.callbackQuery.data>> >>
          /\ ~update.callbackQuery.present => logged = <<>>

\* an update carrying both a message and a callback query was handled
C20_Witness ==
    /\ update.message.present
    /\ update.callbackQuery.present
    /\ Len(sent) = 1
    /\ logged = <<>>

(***************************************************************************)
(* C21.  handleMessage sends exactly one reply per message, chosen by the  *)
(* text: welcome for /start, help for /help, create for /create, default   *)
(* for any other text; it returns the error of that single send.           *)
(***************************************************************************)
C21_OneReplyPerMessage ==
    (call.fn = "HandleUpdate" /\ update.message.present) =>
        LET text == update.message.text
            starts(p) == Len(text) >= Len(p) /\ \A i \in 1..Len(p) : text[i] = p[i]
            phrase == IF starts(<<"/", "s", "t", "a", "r", "t">>) THEN "Welcome to ChatMood"
                      ELSE IF starts(<<"/", "h", "e", "l", "p">>) THEN "ChatMood Help"
                      ELSE IF starts(<<"/", "c", "r", "e", "a", "t", "e">>)
                           THEN "Ready to create"
                      ELSE "not sure what you mean"
        IN  /\ Len(sent) = 1
            /\ sent[1].method = "sendMessage"
            /\ sent[1].data.text.phrase = phrase
            /\ returned = makeRequest("sendMessage", sent[1].data, exchanges[1]).err

(***************************************************************************)
(* C22.  NewBot returns a bot and a nil error if and only if getMe         *)
(* succeeds and, when webhookURL is non-empty, setWebhook succeeds; a      *)
(* failure of setMyCommands or setChatMenuButton never makes it fail, and  *)
(* whenever it returns an error the returned bot is nil.                   *)
(***************************************************************************)
C22_NewBotResult ==
    call.fn = "NewBot" =>
        LET Ok200(o) == o.kind = "response" /\ o.status = 200
            getMeOk == Ok200(exchanges[1]) /\ exchanges[1].body = OkBody
            hookOk == call.args[2] = "" \/ (Len(exchanges) >= 2 /\ Ok200(exchanges[2]))
        IN  /\ (returned = "nil") <=> (getMeOk /\ hookOk)
            /\ bot.present <=> (returned = "nil")

\* both optional set-up requests failed and the bot was returned all the same
C22_Witness ==
    /\ call.fn = "NewBot"
    /\ bot.present
    /\ returned = "nil"
    /\ Len(logged) = 2
    /\ call.args[2] # ""

(***************************************************************************)
(* C24.  NewBot issues its requests in the order getMe, setWebhook (only   *)
(* when webhookURL is non-empty), setMyCommands, setChatMenuButton, and    *)
(* sends nothing after a failed getMe or a failed setWebhook.              *)
(***************************************************************************)
C24_NewBotRequestOrder ==
    call.fn = "NewBot" =>
        LET methods == [i \in 1..Len(sent) |-> sent[i].method]
            Ok200(o) == o.kind = "response" /\ o.status = 200
            getMeOk == Ok200(exchanges[1]) /\ exchanges[1].body = OkBody
        IN  /\ call.args[2] = "" => \A i \in 1..Len(sent) : methods[i] # "setWebhook"
            /\ methods =
                 IF ~getMeOk THEN <<"getMe">>
                 ELSE IF call.args[2] = ""
                      THEN <<"getMe", "setMyCommands", "setChatMenuButton">>
                 ELSE IF ~Ok200(exchanges[2]) THEN <<"getMe", "setWebhook">>
                 ELSE <<"getMe", "setWebhook", "setMyCommands", "setChatMenuButton">>

\* a start-up whose setWebhook failed
C24_Witness ==
    /\ call.fn = "NewBot"
    /\ Len(sent) = 2
    /\ sent[2].method = "setWebhook"
    /\ returned # "nil"

(***************************************************************************)
(* C26.  HandleUpdate never panics: for every Update, including a message  *)
(* whose From or Chat is nil, it returns nil or an error.                  *)
(***************************************************************************)
C26_HandleUpdateNeverPanics ==
    call.fn = "HandleUpdate" => returned # "panic"

(***************************************************************************)
(* C23.  After initialisation and after every UI event the preview canvas  *)
(* has been re-rendered from the current selections: every handler ends    *)
(* with a render of the (mood, emoji, text, textColor, effect) it leaves,  *)
(* never of a stale combination.                                           *)
(***************************************************************************)
C23_EveryEventRenders ==
    /\ canvas = updatePreview(FreshMachine, moods[1], DefaultEmoji, <<>>, colors[1],
                              "none").canvas
    /\ [][canvas' = updatePreview([ctx |-> ctx, canvas |-> canvas, threw |-> threw],
                                  selectedMood', selectedEmoji', customText',
                                  textColor', selectedEffect').canvas]_vars

\* an effect click was rendered: the caption on the canvas is stroked
C23_Witness ==
    /\ selectedEffect = "outline"
    /\ Caption # <<>>
    /\ \E i \in 1..Len(canvas) : canvas[i].op = "strokeText" /\ canvas[i].text = Caption

(***************************************************************************)
(* C25.  shareSticker closes the Telegram WebApp only after the share      *)
(* request received an ok response, and shows the success notification in  *)
(* that case; on a non-ok response or a network error it shows the error   *)
(* notification and never closes the WebApp.                               *)
(***************************************************************************)
C25_CloseOnlyAfterOk ==
    LET okCount == Cardinality({i \in 1..Len(responses) : responses[i] = "ok"})
    IN  /\ Len(notified) = Len(responses)
        /\ closeTimers + closeCalls <= okCount
        /\ telegram = "none" => closeTimers + closeCalls = 0
        /\ telegram = "webapp" => closeTimers + closeCalls = okCount
        /\ \A i \in 1..Len(responses) :
              IF responses[i] = "ok"
              THEN notified[i][1].type = "success"
              ELSE notified[i] = << [message |-> "Failed to share sticker. Please try again.",
                                     type |-> "error"] >>

\* one share failed, a later one succeeded and its timer closed the WebApp
C25_Witness ==
    /\ Len(responses) >= 2
    /\ responses[1] = "network error"
    /\ responses[2] = "ok"
    /\ closeCalls = 1

(***************************************************************************)
(* C27.  In every reachable state of the web app the button highlighted in *)
(* each picker is the one whose value the renderer uses, with exactly one  *)
(* button highlighted per picker.                                          *)
(***************************************************************************)
C27_HighlightMatchesSelection ==
    /\ Cardinality(highlight.mood) = 1
    /\ Cardinality(highlight.emoji) = 1
    /\ Cardinality(highlight.color) = 1
    /\ Cardinality(highlight.effect) = 1
    /\ \A k \in highlight.mood : moods[k] = selectedMood
    /\ \A k \in highlight.emoji : allEmojis[k] = selectedEmoji
    /\ \A k \in highlight.color : colors[k] = textColor
    /\ \A k \in highlight.effect : effects[k] = selectedEffect

(***************************************************************************)
(* C28.  At every render of the web app selectedMood is one of the eight   *)
(* palette moods, selectedEffect one of the six effects and textColor one  *)
(* of the 18 well-formed six-digit colours of the picker; the fallback     *)
(* background and a malformed colour are unreachable through UI events.    *)
(***************************************************************************)
C28_SelectionsWellFormed ==
    /\ selectedMood \in
          {"happy", "sad", "angry", "excited", "calm", "love", "cool", "tired"}
    /\ selectedMood \in DOMAIN palette
    /\ selectedEffect \in {"none", "shadow", "glow", "outline", "gradient", "rainbow"}
    /\ Len(colors) = 18
    /\ \A k \in 1..Len(colors) :
          /\ Len(colors[k]) = 7
          /\ colors[k][1] = "#"
          /\ \A i \in 2..7 : colors[k][i] \in
                {"0", "1", "2", "3", "4", "5", "6", "7", "8", "9",
                 "A", "B", "C", "D", "E", "F", "a", "b", "c", "d", "e", "f"}
    /\ \E k \in 1..Len(colors) : textColor = colors[k]
    /\ ~threw
    /\ canvas[1].style.stops[1][2] = palette[selectedMood]

\* a render after a mood, a colour and an effect click
C28_Witness ==
    /\ selectedMood = "sad"
    /\ textColor = <<"#", "F", "F", "F", "F", "F", "F">>
    /\ selectedEffect = "gradient"
    /\ Caption # <<>>

(***************************************************************************)
(* C29.  makeRequest returns the response body with a nil error only when  *)
(* the HTTP status is 200; for any other status, a transport error or a    *)
(* body read error it returns a nil body and a non-nil error, and every    *)
(* caller propagates that error.                                           *)
(***************************************************************************)
C29_RequestErrors ==
    call.fn \in {"makeRequest", "getMe", "setWebhook", "setCommands", "setMenuButton",
                 "sendMessage"} =>
        LET o == exchanges[1]
            ok == o.kind = "response" /\ o.status = 200
            failure == IF o.kind = "response"
                       THEN "API request failed with status: " \o o.body
                       ELSE o.kind
        IN  /\ Len(sent) = 1
            /\ call.fn = "makeRequest" =>
                  /\ (reply.err = "nil") <=> ok
                  /\ ok => reply.body = [present |-> TRUE, text |-> o.body]
                  /\ ~ok => ~reply.body.present /\ reply.err = failure
            /\ ~ok => returned = failure
            /\ (ok /\ call.fn # "getMe") => returned = "nil"
            /\ (call.fn = "getMe" /\ returned = "nil") => ok

\* a caller handed back the error of a response with another status
C29_Witness ==
    /\ call.fn = "sendMessage"
    /\ exchanges[1].kind = "response"
    /\ exchanges[1].status = 500
    /\ returned # "nil"

(***************************************************************************)
(* C30.  health_check always terminates: it probes the /health endpoint at *)
(* most 30 times, returns at the first successful probe without probing    *)
(* again, and after 30 failed probes exits the script with an error, so    *)
(* setup_log_rotation and cleanup run only after a successful probe.       *)
(***************************************************************************)
C30_HealthCheckTerminates ==
    /\ [](probes <= 30)
    /\ [][lastProbe = "ok" => probes' = probes]_vars
    /\ []((pc = "exited" /\ steps = <<"health_check">>) =>
             (probes = 30 /\ lastProbe = "failed" /\ exitStatus = 1))
    /\ []((\E i \in 1..Len(steps) : steps[i] \in {"setup_log_rotation", "cleanup"}) =>
             lastProbe = "ok")
    /\ <>(pc \in {"done", "exited"})

\* thirty probes failed and the script was ended inside health_check
C30_Witness ==
    /\ pc = "exited"
    /\ steps = <<"health_check">>
    /\ probes = 30
    /\ exitStatus = 1

====
